---- MODULE Spec2Model ----
(***************************************************************************)
(* Model of train_parallel_labeled_corpora.py: the vocabulary loader, the  *)
(* line encoder, the file-backed generators and the labeled-data batching  *)
(* generator.  Python strings are modelled as sequences of one-character   *)
(* strings; a token is such a sequence; a file is a sequence of raw lines  *)
(* (each with its trailing newline when it has one).                       *)
(***************************************************************************)
EXTENDS Naturals, Integers, Sequences, FiniteSets, TLC

VARIABLES
    \* ---- load_vocab / encoder ----
    vocab_file,     \* content of vocab.txt: sequence of raw lines
    ids_bias,       \* load_vocab's ids_bias argument
    vpc,            \* position in load_vocab: "reading" | "done" | "error"
                    \* ("idle" while only the generator is studied)
    tokens,         \* load_vocab's local list `tokens`
    token2id,       \* returned token -> id dict (empty until returned)
    id2token,       \* returned id -> token dict (empty until returned)
    enc_via,        \* how the encoder was last applied: "none" | "tokens" | "file"
    enc_in,         \* the encoder's last input
    enc_out,        \* the encoder's last output
    \* ---- labeled_data_generator ----
    source_file, target_file, label_file,   \* contents of the three corpora
    batch_size,
    pos,            \* number of items pulled from each of the three files_its
    rows,           \* merged batch_row values delivered to the for loop so far
    text_batch, label_batch,                \* the two accumulators
    yielded,        \* sequence of 4-tuples yielded so far
    gpc             \* generator position: "loop" | "yielded" | "done"
                    \* ("idle" while only the vocabulary is studied)

vocab_vars == <<vocab_file, ids_bias, vpc, tokens, token2id, id2token,
                enc_via, enc_in, enc_out>>
gen_vars == <<source_file, target_file, label_file, batch_size, pos, rows,
              text_batch, label_batch, yielded, gpc>>
vars == <<vocab_vars, gen_vars>>

----------------------------------------------------------------------------
(* Bounds *)
MaxVocabLines == 3
MaxLines == 6
MaxBatch == 3

(* Program constants *)
unk_id == 2
join_id == 3
main_ids_bias == 4
PAD == 0

Whitespace == {" ", "\t", "\n"}

EmptyMap == <<>>

Min2(a, b) == IF a <= b THEN a ELSE b
Max2(a, b) == IF a >= b THEN a ELSE b

RECURSIVE SeqMax(_)
SeqMax(s) == IF s = <<>> THEN 0 ELSE Max2(Head(s), SeqMax(Tail(s)))

----------------------------------------------------------------------------
(* String primitives *)

\* line.replace("\n", "")
strip_newline(line) == SelectSeq(line, LAMBDA c : c # "\n")

\* str.split() with no argument: fields are the maximal runs of
\* non-whitespace characters
RECURSIVE split_from(_, _, _, _)
split_from(s, i, cur, acc) ==
    IF i > Len(s)
    THEN (IF cur = <<>> THEN acc ELSE Append(acc, cur))
    ELSE IF s[i] \in Whitespace
         THEN split_from(s, i + 1, <<>>,
                         IF cur = <<>> THEN acc ELSE Append(acc, cur))
         ELSE split_from(s, i + 1, Append(cur, s[i]), acc)

str_split(s) == split_from(s, 1, <<>>, <<>>)

\* iterating a Python str yields its one-character substrings
str_iter(s) == [i \in 1..Len(s) |-> <<s[i]>>]

----------------------------------------------------------------------------
(* load_vocab *)

\* `token, freq = line.split()` succeeds only with exactly two fields
unpack_ok_loose(fields) == Len(fields) >= 2
unpack_ok(fields) == Len(fields) = 2

\* {t: i + ids_bias for i, t in enumerate(tokens)}: a later duplicate key
\* replaces the value of an earlier one
LastIndex(toks, t) ==
    CHOOSE i \in 1..Len(toks) :
        /\ toks[i] = t
        /\ \A j \in 1..Len(toks) : toks[j] = t => j <= i
FirstIndex(toks, t) ==
    CHOOSE i \in 1..Len(toks) :
        /\ toks[i] = t
        /\ \A j \in 1..Len(toks) : toks[j] = t => j >= i

build_token2id_first_wins(toks, bias) ==
    [t \in {toks[i] : i \in 1..Len(toks)} |-> (FirstIndex(toks, t) - 1) + bias]
build_token2id_one_based(toks, bias) ==
    [t \in {toks[i] : i \in 1..Len(toks)} |-> LastIndex(toks, t) + bias]
build_token2id(toks, bias) ==
    [t \in {toks[i] : i \in 1..Len(toks)} |-> (LastIndex(toks, t) - 1) + bias]

\* {i + ids_bias: t for i, t in enumerate(tokens)}
build_id2token(toks, bias) ==
    [k \in {(i - 1) + bias : i \in 1..Len(toks)} |-> toks[(k - bias) + 1]]

----------------------------------------------------------------------------
(* vocab_encoder_wrapper / open_file_wrapper *)

\* vocab.get(t, unk_id)
dict_get(vocab, t, default) == IF t \in DOMAIN vocab THEN vocab[t] ELSE default

\* line_ecoder_fn(line) = list(map(lambda t: vocab.get(t, unk_id), line))
line_ecoder_fn_drop_unknown(vocab, line) ==
    LET known == SelectSeq(line, LAMBDA t : t \in DOMAIN vocab)
    IN  [i \in 1..Len(known) |-> vocab[known[i]]]
line_ecoder_fn(vocab, line) ==
    [i \in 1..Len(line) |-> dict_get(vocab, line[i], unk_id)]

\* open_file_fn(filepath), for proc_fn = vocab_encoder_wrapper(vocab): one
\* item per line of the file; the line is passed to proc_fn as a str, so
\* the encoder iterates over its characters
open_file_fn_skip_blank(vocab, file) ==
    LET kept == SelectSeq(file, LAMBDA l : strip_newline(l) # <<>>)
    IN  [i \in 1..Len(kept) |->
            line_ecoder_fn(vocab, str_iter(strip_newline(kept[i])))]
open_file_fn(vocab, file) ==
    [i \in 1..Len(file) |->
        line_ecoder_fn(vocab, str_iter(strip_newline(file[i])))]

----------------------------------------------------------------------------
(* seq2seq.batch_utils.time_major_batch and the rstools generators *)

\* time_major_batch(inputs): a zero-filled [batch, max_len] array is filled
\* row by row and its axes are swapped; the true lengths are returned
\* alongside.  The array is a record of its shape and its rows (time-major).
time_major_batch(inputs) ==
    LET sequence_lengths == [i \in 1..Len(inputs) |-> Len(inputs[i])]
        n == Len(inputs)
        max_len == SeqMax(sequence_lengths)
    IN  <<[shape |-> <<max_len, n>>,
           data  |-> [t \in 1..max_len |->
                        [i \in 1..n |->
                            IF t <= Len(inputs[i]) THEN inputs[i][t] ELSE PAD]]],
          sequence_lengths>>

\* files_data_generator(files, open_fn, batch_size): the items of each file
\* in turn, one per line
RECURSIVE files_data_generator(_, _)
files_data_generator(vocab, files) ==
    IF files = <<>> THEN <<>>
    ELSE open_file_fn(vocab, Head(files)) \o files_data_generator(vocab, Tail(files))

\* merge_generators(generators): one pull of the merged iterator.  The
\* inputs are pulled in order; the first exhausted one ends the merge
\* (the inputs before it have already given up an item).
RECURSIVE merge_pull(_, _, _)
merge_pull(streams, p, k) ==
    IF k > Len(streams)
    THEN [stop |-> FALSE, pos |-> p]
    ELSE IF p[k] >= Len(streams[k])
         THEN [stop |-> TRUE, pos |-> p]
         ELSE merge_pull(streams, [p EXCEPT ![k] = p[k] + 1], k + 1)

merge_generators(streams, p) == merge_pull(streams, p, 1)

----------------------------------------------------------------------------
(* labeled_data_generator *)

\* main(): label_vocab = {"0": 2, "1": 3}
label_vocab == (<<"0">> :> 2) @@ (<<"1">> :> 3)

\* the text vocabulary handed to the generator: single-character tokens
\* "a" and "c" loaded at the bias main() uses
text_vocab == build_token2id(<< <<"a">>, <<"c">> >>, main_ids_bias)

\* files_its (lines 89-102): source and target through the text vocabulary,
\* labels through the label vocabulary
files_its(src, tgt, lbl) ==
    << files_data_generator(text_vocab, <<src>>),
       files_data_generator(text_vocab, <<tgt>>),
       files_data_generator(label_vocab, <<lbl>>) >>

\* text = batch_row[0] + [join_id] + batch_row[1]
joined_text_no_join(batch_row) == batch_row[1] \o batch_row[2]
joined_text(batch_row) == batch_row[1] \o <<join_id>> \o batch_row[2]

\* label = batch_row[2]
label_of(batch_row) == batch_row[3]

\* if len(text_batch) >= batch_size
batch_full_strict(tb, bs) == Len(tb) > bs
batch_full(tb, bs) == Len(tb) >= bs

\* the 4-tuple of line 115, from the two calls of lines 112-113
assemble_labels_twice(tb, lb) ==
    LET t == time_major_batch(lb)
        l == time_major_batch(lb)
    IN  [text |-> t[1], text_len |-> t[2], label |-> l[1], label_len |-> l[2]]
assemble(tb, lb) ==
    LET t == time_major_batch(tb)
        l == time_major_batch(lb)
    IN  [text |-> t[1], text_len |-> t[2], label |-> l[1], label_len |-> l[2]]

\* text_batch = [] / label_batch = [] after the yield
reset_batch_keep(b) == b
reset_batch(b) == <<>>

----------------------------------------------------------------------------
(* Inputs *)

Files(lines, max) == UNION {[1..n -> lines] : n \in 0..max}

\* corpora of up to max lines that run through the line kinds in turn,
\* starting at any of them, so that neighbouring lines differ
Corpora(kinds, max) ==
    { [i \in 1..n |-> kinds[((i + off) % Len(kinds)) + 1]] :
        n \in 0..max, off \in 0..(Len(kinds) - 1) }

\* every line of a file read by `for line in fin` ends with its newline,
\* except possibly the last one
ReadableFile(f) ==
    \A i \in 1..Len(f) :
        /\ f[i] # <<>>
        /\ \A j \in 1..(Len(f[i]) - 1) : f[i][j] # "\n"
        /\ i < Len(f) => f[i][Len(f[i])] = "\n"

L_the10 == <<"t", "h", "e", " ", "1", "0", "\n">>
L_cat5 == <<"c", "a", "t", " ", "5", "\n">>
L_theDog == <<"t", "h", "e", " ", "d", "o", "g", "\n">>
T_the == <<"t", "h", "e">>
T_cat == <<"c", "a", "t">>
T_dog == <<"d", "o", "g">>

VocabLines ==
    { <<"a", " ", "1", "\n">>,            \* well-formed
      <<"b", "\t", "7", "\n">>,           \* well-formed, tab separated
      <<" ", "a", " ", " ", "2", "\n">>,  \* token "a" again, extra blanks
      <<"b", " ", "7">>,                  \* last line without newline
      <<"a", "\n">>,                      \* one field
      <<"a", " ", "b", " ", "c", "\n">>,  \* three fields
      <<"\n">>,                           \* blank line
      L_the10, L_cat5 }

VocabFiles == {f \in Files(VocabLines, MaxVocabLines) : ReadableFile(f)}

BiasValues == {0, main_ids_bias}

TokenSeqs ==
    { <<>>, <<T_the, T_dog>>, <<T_cat, T_the, T_cat>>,
      << <<"a">>, <<"b">> >>, << <<"z">>, <<"a">>, <<"a">> >> }

TextLines ==
    { L_theDog, <<"a", " ", "b", "\n">>, <<"b", "a">>, <<"\n">> }

SourceLines == << <<"a", "\n">>, <<"a", "c", "\n">>, <<"c", "a", "b", "\n">> >>
TargetLines == << <<"\n">>, <<"c", "\n">> >>
LabelLines == << <<"1", "\n">>, <<"0", "1", "\n">> >>

----------------------------------------------------------------------------
(* load_vocab and the encoder, step by step *)

VocabIdle ==
    /\ vocab_file = <<>> /\ ids_bias = 0 /\ vpc = "idle" /\ tokens = <<>>
    /\ token2id = EmptyMap /\ id2token = EmptyMap
    /\ enc_via = "none" /\ enc_in = <<>> /\ enc_out = <<>>

GenIdle ==
    /\ source_file = <<>> /\ target_file = <<>> /\ label_file = <<>>
    /\ batch_size = 1 /\ pos = <<0, 0, 0>> /\ rows = <<>>
    /\ text_batch = <<>> /\ label_batch = <<>> /\ yielded = <<>>
    /\ gpc = "idle"

Init ==
    /\ vocab_file \in VocabFiles
    /\ ids_bias \in BiasValues
    /\ vpc = "reading"
    /\ tokens = <<>>
    /\ token2id = EmptyMap /\ id2token = EmptyMap
    /\ enc_via = "none" /\ enc_in = <<>> /\ enc_out = <<>>
    /\ GenIdle

\* one iteration of `for line in fin` (lines 123-126)
ReadVocabLine ==
    /\ vpc = "reading"
    /\ Len(tokens) < Len(vocab_file)
    /\ LET line == strip_newline(vocab_file[Len(tokens) + 1])
           fields == str_split(line)
       IN  IF unpack_ok(fields)
           THEN /\ tokens' = Append(tokens, fields[1])
                /\ vpc' = vpc
           ELSE /\ vpc' = "error"       \* ValueError leaves load_vocab
                /\ tokens' = tokens
    /\ UNCHANGED <<vocab_file, ids_bias, token2id, id2token,
                   enc_via, enc_in, enc_out, gen_vars>>

\* lines 128-130, once the file is exhausted
ReturnVocab ==
    /\ vpc = "reading"
    /\ Len(tokens) = Len(vocab_file)
    /\ token2id' = build_token2id(tokens, ids_bias)
    /\ id2token' = build_id2token(tokens, ids_bias)
    /\ vpc' = "done"
    /\ UNCHANGED <<vocab_file, ids_bias, tokens, enc_via, enc_in, enc_out,
                   gen_vars>>

\* vocab_encoder_wrapper(token2id) applied to a sequence of tokens
EncodeTokens ==
    /\ vpc = "done"
    /\ \E line \in TokenSeqs :
        /\ enc_via' = "tokens"
        /\ enc_in' = line
        /\ enc_out' = line_ecoder_fn(token2id, line)
    /\ UNCHANGED <<vocab_file, ids_bias, vpc, tokens, token2id, id2token,
                   gen_vars>>

\* open_file_wrapper(vocab_encoder_wrapper(token2id)) on a one-line file
EncodeFileLine ==
    /\ vpc = "done"
    /\ \E raw \in TextLines :
        /\ enc_via' = "file"
        /\ enc_in' = raw
        /\ enc_out' = open_file_fn(token2id, <<raw>>)[1]
    /\ UNCHANGED <<vocab_file, ids_bias, vpc, tokens, token2id, id2token,
                   gen_vars>>

Next == ReadVocabLine \/ ReturnVocab \/ EncodeTokens \/ EncodeFileLine

Spec == Init /\ [][Next]_vars

----------------------------------------------------------------------------
(* labeled_data_generator, step by step *)

Streams == files_its(source_file, target_file, label_file)

PipelineInit ==
    /\ VocabIdle
    /\ source_file \in Corpora(SourceLines, MaxLines)
    /\ target_file \in Corpora(TargetLines, MaxLines)
    /\ label_file \in Corpora(LabelLines, MaxLines)
    /\ batch_size \in 1..MaxBatch
    /\ pos = <<0, 0, 0>>
    /\ rows = <<>>
    /\ text_batch = <<>> /\ label_batch = <<>>
    /\ yielded = <<>>
    /\ gpc = "loop"

\* one iteration of the for loop of lines 106-115, up to the yield
ConsumeRow ==
    /\ gpc = "loop"
    /\ LET m == merge_generators(Streams, pos)
           batch_row == [k \in 1..3 |-> Streams[k][m.pos[k]]]
           tb == Append(text_batch, joined_text(batch_row))
           lb == Append(label_batch, label_of(batch_row))
       IN  /\ ~m.stop
           /\ pos' = m.pos
           /\ rows' = Append(rows, batch_row)
           /\ text_batch' = tb
           /\ label_batch' = lb
           /\ IF batch_full(tb, batch_size)
              THEN /\ yielded' = Append(yielded, assemble(tb, lb))
                   /\ gpc' = "yielded"
              ELSE /\ yielded' = yielded
                   /\ gpc' = "loop"
    /\ UNCHANGED <<vocab_vars, source_file, target_file, label_file, batch_size>>

\* the consumer pulls again: lines 116-117, back to the loop head
Resume ==
    /\ gpc = "yielded"
    /\ text_batch' = reset_batch(text_batch)
    /\ label_batch' = reset_batch(label_batch)
    /\ gpc' = "loop"
    /\ UNCHANGED <<vocab_vars, source_file, target_file, label_file, batch_size,
                   pos, rows, yielded>>

\* the merged generator is exhausted: the for loop and the generator end
Exhaust ==
    /\ gpc = "loop"
    /\ LET m == merge_generators(Streams, pos)
       IN  /\ m.stop
           /\ pos' = m.pos
    /\ gpc' = "done"
    /\ UNCHANGED <<vocab_vars, source_file, target_file, label_file, batch_size,
                   rows, text_batch, label_batch, yielded>>

PipelineNext == ConsumeRow \/ Resume \/ Exhaust

PipelineSpec == PipelineInit /\ [][PipelineNext]_vars

----------------------------------------------------------------------------
(* Properties of load_vocab and the encoder (checked under Spec) *)

\* the fields and the token of line i of the vocabulary file
LineFields(i) == str_split(strip_newline(vocab_file[i]))
LineToken(i) == LineFields(i)[1]
VocabLineNumbers == 1..Len(vocab_file)

DistinctTokens ==
    \A i, j \in VocabLineNumbers : i # j => LineToken(i) # LineToken(j)
DuplicateTokens ==
    \E i, j \in VocabLineNumbers : i < j /\ LineToken(i) = LineToken(j)

\* C3: a vocabulary file of K well-formed lines with pairwise distinct
\* tokens, loaded at bias B, gives token2id and id2token that are inverse
\* to each other over the ids B .. B+K-1, line i (0-based) having id B+i.
C3_VocabInverse ==
    (vpc = "done" /\ DistinctTokens) =>
        LET K == Len(vocab_file)
        IN  /\ DOMAIN id2token = ids_bias..(ids_bias + K - 1)
            /\ DOMAIN token2id = {LineToken(i) : i \in VocabLineNumbers}
            /\ \A i \in VocabLineNumbers :
                    token2id[LineToken(i)] = ids_bias + (i - 1)
            /\ \A t \in DOMAIN token2id :
                    /\ token2id[t] \in DOMAIN id2token
                    /\ id2token[token2id[t]] = t
            /\ \A k \in DOMAIN id2token :
                    /\ id2token[k] \in DOMAIN token2id
                    /\ token2id[id2token[k]] = k

C3_Witness ==
    /\ vpc = "done"
    /\ Len(vocab_file) = 3
    /\ DistinctTokens
    /\ ids_bias = main_ids_bias

\* the last encoder output, position by position, against the vocabulary
C4_EncodedAsRead ==
    enc_via = "tokens" =>
        /\ Len(enc_out) = Len(enc_in)
        /\ \A i \in 1..Len(enc_in) :
                enc_out[i] = IF enc_in[i] \in DOMAIN token2id
                             THEN token2id[enc_in[i]]
                             ELSE unk_id

\* C4: the encoder's output has the length and order of its input, holds
\* the vocabulary's id for a known token and unk_id for an unknown one,
\* and encoding never changes the vocabulary.
C4_Encoder ==
    /\ []C4_EncodedAsRead
    /\ [][vpc = "done" => (token2id' = token2id /\ id2token' = id2token)]_vars

C4_Witness ==
    /\ enc_via = "tokens"
    /\ Len(enc_in) = 3
    /\ \E i \in 1..Len(enc_in) : enc_in[i] \in DOMAIN token2id
    /\ \E i \in 1..Len(enc_in) : enc_in[i] \notin DOMAIN token2id

\* C5: with the vocabulary of the lines "the 10" and "cat 5" at bias 4,
\* the file line "the dog" is encoded by the pipeline's file reader as the
\* two ids [4, 2].
C5_TheDogIsTwoIds ==
    ( /\ vpc = "done"
      /\ vocab_file = <<L_the10, L_cat5>>
      /\ ids_bias = 4
      /\ enc_via = "file"
      /\ enc_in = L_theDog )
    => /\ token2id = (T_the :> 4) @@ (T_cat :> 5)
       /\ enc_out = <<4, 2>>

\* C8: load_vocab ends in a parse error, with no mapping returned, as soon
\* as it meets a line that does not split into exactly two fields, however
\* many well-formed lines come before; it returns only when every line has
\* exactly two fields.
C8_ParseError ==
    /\ vpc = "done" =>
            \A i \in VocabLineNumbers : Len(LineFields(i)) = 2
    /\ vpc = "reading" =>
            \A i \in 1..Len(tokens) : Len(LineFields(i)) = 2
    /\ vpc = "error" =>
            /\ Len(tokens) < Len(vocab_file)
            /\ \A i \in 1..Len(tokens) : Len(LineFields(i)) = 2
            /\ Len(LineFields(Len(tokens) + 1)) # 2
            /\ token2id = EmptyMap
            /\ id2token = EmptyMap
    /\ (\E i \in VocabLineNumbers : Len(LineFields(i)) # 2) => vpc # "done"

C8_Witness ==
    /\ vpc = "error"
    /\ Len(tokens) = 2
    /\ Len(LineFields(3)) > 2

\* C9 as stated: with a token on more than one line, no error is raised
\* and the later line overwrites the earlier id in the id -> token map, so
\* that map keeps, for the token, only the id of its last line.
C9_IdToTokenOverwritten ==
    (vpc \in {"done", "error"} /\ \A i \in VocabLineNumbers : Len(LineFields(i)) = 2) =>
        /\ vpc = "done"
        /\ \A i, j \in VocabLineNumbers :
                (i < j /\ LineToken(i) = LineToken(j)) =>
                    (ids_bias + (i - 1)) \notin DOMAIN id2token

\* C9 amended: with a token on more than one line, no error is raised; the
\* later line overwrites the earlier id in the token -> id map, while the
\* id -> token map keeps one entry per line, every one of the token's ids
\* still mapping to it.
C9_TokenToIdOverwritten ==
    (vpc \in {"done", "error"} /\ \A i \in VocabLineNumbers : Len(LineFields(i)) = 2) =>
        /\ vpc = "done"
        /\ \A i \in VocabLineNumbers :
                /\ \A j \in VocabLineNumbers :
                        (i <= j /\ LineToken(i) = LineToken(j)) =>
                            token2id[LineToken(i)] >= ids_bias + (j - 1)
                /\ \E j \in VocabLineNumbers :
                        /\ LineToken(j) = LineToken(i)
                        /\ token2id[LineToken(i)] = ids_bias + (j - 1)
                /\ (ids_bias + (i - 1)) \in DOMAIN id2token
                /\ id2token[ids_bias + (i - 1)] = LineToken(i)
        /\ DOMAIN id2token = ids_bias..(ids_bias + Len(vocab_file) - 1)

C9_Witness ==
    /\ vpc = "done"
    /\ \A i \in VocabLineNumbers : Len(LineFields(i)) = 2
    /\ DuplicateTokens
    /\ Len(vocab_file) = 3

----------------------------------------------------------------------------
(* Properties of labeled_data_generator (checked under PipelineSpec) *)

MinLines == Min2(Len(source_file), Min2(Len(target_file), Len(label_file)))

\* the ids of one raw file line: one id per character left after the
\* newline is removed
IdsOfLine(vocab, raw) ==
    LET line == strip_newline(raw)
    IN  [i \in 1..Len(line) |->
            IF <<line[i]>> \in DOMAIN vocab THEN vocab[<<line[i]>>] ELSE unk_id]

\* column i of a time-major array, cut to its first n positions
Column(arr, i, n) == [t \in 1..n |-> arr.data[t][i]]

\* C1: a batch is yielded exactly when the batch_size-th tuple since the
\* previous yield (or the start) has been consumed: after r tuples there
\* are r div batch_size batches, floor(n / batch_size) at exhaustion, and
\* the remainder left in the accumulators is never yielded.
C1_BatchCount ==
    gpc # "idle" =>
        /\ Len(yielded) = Len(rows) \div batch_size
        /\ gpc = "yielded" => (Len(rows) > 0 /\ Len(rows) % batch_size = 0)
        /\ gpc = "loop" => Len(text_batch) = Len(rows) % batch_size
        /\ gpc = "done" =>
                /\ Len(rows) = MinLines
                /\ Len(yielded) = MinLines \div batch_size
                /\ Len(text_batch) = MinLines % batch_size

C1_Witness ==
    /\ gpc = "done"
    /\ batch_size = 2
    /\ Len(yielded) = 2
    /\ Len(text_batch) = 1

\* C2: the text example appended for a merged tuple with source ids S and
\* target ids T is S, then the single join id, then T, of length
\* len(S) + 1 + len(T); the label example appended with it is the tuple's
\* label sequence unchanged.
C2_JoinedExample ==
    gpc # "idle" =>
        /\ Len(label_batch) = Len(text_batch)
        /\ Len(text_batch) <= Len(rows)
        /\ \A j \in 1..Len(text_batch) :
            LET batch_row == rows[(Len(rows) - Len(text_batch)) + j]
                S == batch_row[1]
                T == batch_row[2]
                text == text_batch[j]
            IN  /\ Len(text) = Len(S) + 1 + Len(T)
                /\ \A i \in 1..Len(S) : text[i] = S[i]
                /\ text[Len(S) + 1] = join_id
                /\ \A i \in 1..Len(T) : text[Len(S) + 1 + i] = T[i]
                /\ label_batch[j] = batch_row[3]

C2_Witness ==
    /\ gpc = "loop"
    /\ Len(text_batch) = 2
    /\ Len(rows[Len(rows)][1]) = 3
    /\ Len(rows[Len(rows)][2]) = 1
    /\ Len(rows[Len(rows) - 1][2]) = 0
    /\ label_batch[1] # label_batch[2]

\* C6: the merged stream delivers exactly min(a, b, c) tuples, the i-th
\* made of line i of the source, the target and the label file, in line
\* order; surplus lines of longer files never become examples and the
\* generator ends normally.
C6_MergedStream ==
    gpc # "idle" =>
        /\ Len(rows) <= MinLines
        /\ \A i \in 1..Len(rows) :
                rows[i] = << IdsOfLine(text_vocab, source_file[i]),
                             IdsOfLine(text_vocab, target_file[i]),
                             IdsOfLine(label_vocab, label_file[i]) >>
        /\ gpc = "done" => Len(rows) = MinLines
        /\ (gpc = "loop" /\ Len(rows) = MinLines) => ENABLED Exhaust

C6_Witness ==
    /\ gpc = "done"
    /\ Len(rows) = 2
    /\ Len(source_file) = 4
    /\ Len(target_file) = 2
    /\ Len(label_file) = 3
    /\ target_file[1] # target_file[2]

\* a chunk assembled into the time-major array arr with lengths lens
Assembled(arr, lens, chunk) ==
    LET N == Len(chunk)
    IN  /\ Len(lens) = N
        /\ \A i \in 1..N : lens[i] = Len(chunk[i])
        /\ arr.shape[2] = N
        /\ \A i \in 1..N : lens[i] <= arr.shape[1]
        /\ \E i \in 1..N : lens[i] = arr.shape[1]
        /\ Len(arr.data) = arr.shape[1]
        /\ \A t \in 1..arr.shape[1] :
                /\ Len(arr.data[t]) = N
                /\ \A i \in 1..N :
                        arr.data[t][i] = IF t <= lens[i] THEN chunk[i][t] ELSE PAD

\* C7: for a non-empty chunk of N sequences the assembler returns the true
\* lengths and a time-major array of max-length rows and N columns, holding
\* sequence i in column i and the padding constant below it.
C7_TimeMajor ==
    gpc = "yielded" =>
        LET batch == yielded[Len(yielded)]
        IN  /\ text_batch # <<>>
            /\ Assembled(batch.text, batch.text_len, text_batch)
            /\ Assembled(batch.label, batch.label_len, label_batch)

C7_Witness ==
    /\ gpc = "yielded"
    /\ batch_size = 2
    /\ yielded[Len(yielded)].text_len = <<3, 5>>
    /\ yielded[Len(yielded)].text.shape = <<5, 2>>
    /\ yielded[Len(yielded)].text.data[4][1] = PAD
    /\ yielded[Len(yielded)].text.data[5][1] = PAD

\* C10: the k-th batch (0-based) is assembled from the merged tuples
\* k*batch_size .. (k+1)*batch_size - 1 in order: all four arrays have
\* batch dimension batch_size, text column j and label column j both come
\* from tuple k*batch_size + j, and no tuple is in two batches.
C10_BatchContents ==
    gpc # "idle" =>
        \A k \in 1..Len(yielded) :
            LET batch == yielded[k]
            IN  /\ k * batch_size <= Len(rows)
                /\ batch.text.shape[2] = batch_size
                /\ batch.label.shape[2] = batch_size
                /\ Len(batch.text_len) = batch_size
                /\ Len(batch.label_len) = batch_size
                /\ \A j \in 1..batch_size :
                    LET batch_row == rows[(k - 1) * batch_size + j]
                        text == batch_row[1] \o <<join_id>> \o batch_row[2]
                    IN  /\ batch.text_len[j] = Len(text)
                        /\ batch.text_len[j] <= batch.text.shape[1]
                        /\ Column(batch.text, j, Len(text)) = text
                        /\ batch.label_len[j] = Len(batch_row[3])
                        /\ batch.label_len[j] <= batch.label.shape[1]
                        /\ Column(batch.label, j, Len(batch_row[3])) = batch_row[3]

C10_Witness ==
    /\ Len(yielded) = 2
    /\ batch_size = 2
    /\ \A i, j \in 1..4 : i # j => rows[i] # rows[j]
    /\ yielded[1] # yielded[2]

====
